---- MODULE Spec2Model ----
(***************************************************************************)
(* A model of visu.py: the statistics pass (class histograms, per-point    *)
(* selection counts, per-scene exports) and the batch visualisation pass   *)
(* (scenes of each batch laid out on a grid, or written one by one).       *)
(*                                                                         *)
(* Python lists indexed by scene (hist_list, seeds_list, scene_counters,   *)
(* pc_shapes, filenames) are functions over 0..F-1, as in the source.      *)
(* Vectors over the points of a scene and lists grown by append are        *)
(* sequences: point p of the source is entry p+1.                          *)
(* A quotient a/b is kept as the pair <<a, b>>; b = 0 is numpy's nan/inf.  *)
(* The dataset accessor (DATA) is not part of the file: it is a stub that  *)
(* owns a small set of scenes and of inputs it may return.                 *)
(***************************************************************************)
EXTENDS Integers, Sequences, FiniteSets, TLC

VARIABLES FLAGS, PARAMS, GROUP_BY_BATCHES, DATA, pc,
          label_hist, pc_shapes, hist_list, seeds_list, scene_counters,
          i, f, figures, files, draws, calls,
          xsize, ysize, visu_cloud, visu_labels, batches, probe, batch_calls

vars == <<FLAGS, PARAMS, GROUP_BY_BATCHES, DATA, pc,
          label_hist, pc_shapes, hist_list, seeds_list, scene_counters,
          i, f, figures, files, draws, calls,
          xsize, ysize, visu_cloud, visu_labels, batches, probe, batch_calls>>

statsVars == <<label_hist, pc_shapes, hist_list, seeds_list, scene_counters,
               figures, draws, calls>>

batchVars == <<xsize, ysize, visu_cloud, visu_labels, batches, probe,
               batch_calls>>

config == <<FLAGS, PARAMS, GROUP_BY_BATCHES, DATA>>

(* ------------------------------ bounds --------------------------------- *)

\* largest --nps (inputs per scene) explored
MaxNps == 2

\* largest --n (number of batches) explored
MaxBatches == 2

\* largest --batch_size explored
MaxBatchSize == 2

\* number of inputs the many-scene stub returns in turn
ScriptLen == 3

(* ------------------------- program constants --------------------------- *)

MAX_EXPORT == 20

\* the 15 added to the extent of the probe scene
MARGIN == 15

(* ------------------------------ helpers -------------------------------- *)

Min2(a, b) == IF a < b THEN a ELSE b

RECURSIVE SeqSum(_)
SeqSum(v) == IF v = <<>> THEN 0 ELSE v[1] + SeqSum(Tail(v))

\* np.zeros(n), as a vector over points or classes
Zeros(n) == [k \in 1..n |-> 0]

\* a Python list of n entries, indexed from 0
ZeroIndexed(n, v) == [k \in 0..(n - 1) |-> v]

\* a += b on two numpy vectors of the same shape
VecAdd(a, b) == [k \in DOMAIN a |-> a[k] + b[k]]

\* a / b in floating point: the pair <<a, b>>, nan or inf when b = 0
Div(a, b) == <<a, b>>

NotFinite(q) == q[2] = 0

\* v / s for a vector v and a scalar s
VecDiv(v, s) == [k \in DOMAIN v |-> Div(v[k], s)]

\* a file written under a name replaces what the name held
Write(fs, name, content) == (name :> content) @@ fs

Written(name) == name \in DOMAIN files

(* ------------------------- configuration ------------------------------- *)

STATS == FLAGS.stats
DRAW_PLOTS == FLAGS.draw
NBATCH == FLAGS.n
STAT_INPUT_NB == FLAGS.nps
BATCH_SIZE == FLAGS.batch_size

NUM_CLASSES == DATA.num_classes

filenames == DATA.filenames

\* len(filenames)
F == Cardinality(DOMAIN filenames)

\* STAT_INPUT_NB*len(filenames), the number of inputs generated
TotalInputs == STAT_INPUT_NB * F

\* filenames[0:min(len(filenames), MAX_EXPORT)], as the indices it keeps
ExportLimitAll == F
ExportLimit == Min2(F, MAX_EXPORT)

(* -------------------------- the dataset stub --------------------------- *)

\* class labels of the points of the two stub scenes (4 and 2 points)
StubLabels == (0 :> <<0, 1, 0, 1>>) @@ (1 :> <<1, 1>>)

\* the classes counted over the points a mask selects
ClassCount(labels, mask) ==
  [c \in 1..2 |-> SeqSum([p \in DOMAIN mask |->
                            IF labels[p] = c - 1 THEN mask[p] ELSE 0])]

StubInput(sc, mask, seed) ==
  [f |-> sc, input_mask |-> mask,
   input_label_hist |-> ClassCount(StubLabels[sc], mask), seed_idx |-> seed]

\* the inputs next_input may return on the two-scene stub
StubPool ==
  { StubInput(0, <<1, 0, 1, 0>>, 2), StubInput(0, <<0, 1, 0, 0>>, 1),
    StubInput(0, <<1, 0, 0, 0>>, 0), StubInput(1, <<1, 1>>, 1),
    StubInput(1, <<0, 0>>, 0), StubInput(1, <<1, 0>>, 0) }

\* two scenes of 4 and 2 points; get_hist is either the label count of the
\* scenes or all zero (a split with no labelled point)
StubData(hist) ==
  [num_classes |-> 2, filenames |-> (0 :> 100) @@ (1 :> 101),
   shapes |-> (0 :> 4) @@ (1 :> 2), hist |-> hist, script |-> <<StubPool>>,
   bank |-> [plain |-> {}, colour |-> {}]]

\* MAX_EXPORT+1 scenes of one point each; next_input returns the inputs of
\* a fixed script in turn
ManyData(script) ==
  [num_classes |-> 2, filenames |-> [k \in 0..MAX_EXPORT |-> 100 + k],
   shapes |-> [k \in 0..MAX_EXPORT |-> 1], hist |-> <<3, 18>>,
   script |-> [k \in DOMAIN script |-> {script[k]}],
   bank |-> [plain |-> {}, colour |-> {}]]

\* inputs on the first scene, the last exported one and the one after it
ManyInputs ==
  { [f |-> sc, input_mask |-> <<m>>, input_label_hist |-> <<0, m>>,
     seed_idx |-> 0] : sc \in {0, MAX_EXPORT - 1, MAX_EXPORT}, m \in {0, 1} }

\* what the n-th call of DATA.next_input (n = 0, 1, ...) may return
next_input(n) == DATA.script[(n % Len(DATA.script)) + 1]

\* DATA.get_scene(f): one row of geometry per point
get_scene(sc) == [p \in 1..DATA.shapes[sc] |-> <<p - 1, sc, 0>>]

(* --------------------------- statistics pass --------------------------- *)

\* lines 114-135: the histogram of the decimated clouds, when plots are on
DecimatedHist ==
  /\ pc = "stats"
  /\ IF DRAW_PLOTS
       THEN /\ label_hist' = DATA.hist
            /\ files' = Write(files, <<"dec.png", -1>>,
                              VecDiv(DATA.hist, SeqSum(DATA.hist)))
       ELSE UNCHANGED <<label_hist, files>>
  /\ pc' = "setup"
  /\ UNCHANGED <<config, pc_shapes, hist_list, seeds_list, scene_counters,
                 i, f, figures, draws, calls, batchVars>>

\* lines 138-148: one accumulator per scene, all zero
Setup ==
  /\ pc = "setup"
  /\ pc_shapes' = DATA.shapes
  /\ hist_list' = [sc \in 0..(F - 1) |-> Zeros(DATA.shapes[sc])]
  /\ seeds_list' = ZeroIndexed(F, <<>>)
  /\ label_hist' = Zeros(NUM_CLASSES)
  /\ scene_counters' = ZeroIndexed(F, 0)
  /\ i' = 0
  /\ pc' = "draw"
  /\ UNCHANGED <<config, f, figures, files, draws, calls, batchVars>>

\* lines 155-158: what one returned input adds to the accumulators
AccumulateTwice(d) ==
  /\ hist_list' = [hist_list EXCEPT ![d.f] = VecAdd(@, d.input_mask)]
  /\ scene_counters' = [scene_counters EXCEPT ![d.f] = @ + 1]
  /\ seeds_list' = [seeds_list EXCEPT ![d.f] = Append(@, d.seed_idx)]
  /\ label_hist' = VecAdd(VecAdd(label_hist, d.input_label_hist),
                          d.input_label_hist)

AccumulateAllScenes(d) ==
  /\ hist_list' = [hist_list EXCEPT ![d.f] = VecAdd(@, d.input_mask)]
  /\ scene_counters' = [sc \in DOMAIN scene_counters |->
                          scene_counters[sc] + 1]
  /\ seeds_list' = [seeds_list EXCEPT ![d.f] = Append(@, d.seed_idx)]
  /\ label_hist' = VecAdd(label_hist, d.input_label_hist)

Accumulate(d) ==
  /\ hist_list' = [hist_list EXCEPT ![d.f] = VecAdd(@, d.input_mask)]
  /\ scene_counters' = [scene_counters EXCEPT ![d.f] = @ + 1]
  /\ seeds_list' = [seeds_list EXCEPT ![d.f] = Append(@, d.seed_idx)]
  /\ label_hist' = VecAdd(label_hist, d.input_label_hist)

\* lines 151-158: one iteration of the loop, DATA.next_input returning d
NextInput ==
  /\ pc = "draw"
  /\ i < TotalInputs
  /\ \E d \in next_input(i) :
       /\ Accumulate(d)
       /\ draws' = Append(draws, d)
  /\ calls' = calls + 1
  /\ i' = i + 1
  /\ UNCHANGED <<config, pc, pc_shapes, f, figures, files, batchVars>>

\* where the run goes when DATA.next_input raises
AfterFailureCarryOn == "draw_done"
AfterFailure == "aborted"

\* line 154 raising: nothing catches it, the script ends there
NextInputFails ==
  /\ pc = "draw"
  /\ i < TotalInputs
  /\ calls' = calls + 1
  /\ pc' = AfterFailure
  /\ UNCHANGED <<config, label_hist, pc_shapes, hist_list, seeds_list,
                 scene_counters, i, f, figures, files, draws, batchVars>>

\* the loop of line 151 is over
DrawLoopExit ==
  /\ pc = "draw"
  /\ i >= TotalInputs
  /\ pc' = "draw_done"
  /\ UNCHANGED <<config, statsVars, i, f, files, batchVars>>

\* lines 160-173: the histogram of the classes of the generated inputs
InputHist ==
  /\ pc = "draw_done"
  /\ files' = Write(files, <<"input.png", -1>>,
                    VecDiv(label_hist, SeqSum(label_hist)))
  /\ f' = 0
  /\ pc' = "proba"
  /\ UNCHANGED <<config, statsVars, i, batchVars>>

\* lines 180-183: scenes share figure 3 when there are four or more
FigureOf(sc) == IF F < 4 THEN 3 + sc ELSE 3

\* lines 177-191: one iteration, the selection likelihood of scene f
ProbaScene ==
  /\ pc = "proba"
  /\ f < ExportLimit
  /\ IF scene_counters[f] = 0
       THEN UNCHANGED <<figures, files>>
       ELSE LET density == [p \in DOMAIN hist_list[f] |->
                              Div(100 * hist_list[f][p], scene_counters[f])]
                fig == FigureOf(f)
                drawn == IF fig \in DOMAIN figures
                           THEN Append(figures[fig], density)
                           ELSE <<density>>
            IN /\ figures' = (fig :> drawn) @@ figures
               /\ files' = Write(files, <<"proba_scene", f>>, drawn)
  /\ f' = f + 1
  /\ UNCHANGED <<config, pc, label_hist, pc_shapes, hist_list, seeds_list,
                 scene_counters, i, draws, calls, batchVars>>

\* lines 192-196: the loop is over
ProbaDone ==
  /\ pc = "proba"
  /\ f >= ExportLimit
  /\ f' = 0
  /\ pc' = "export"
  /\ UNCHANGED <<config, statsVars, i, files, batchVars>>

\* line 200
Density(h) == VecDiv(h, SeqSum(h))

\* line 203: np.hstack((point_cloud, density.reshape((-1,1))))
DensityTable(sc, density) ==
  [p \in DOMAIN density |-> [xyz |-> get_scene(sc)[p], density |-> density[p]]]

\* lines 205-206: the rows kept by mask = density > 0
KeepRowNonNegative(row) == row.density[1] >= 0
KeepRow(row) == row.density[1] * row.density[2] > 0

Cleaned(table) == SelectSeq(table, KeepRow)

\* line 198: a scene with no selected point is skipped
SkipExport(h) == SeqSum(h) = 0

\* lines 197-208: one iteration, the tables of scene f
ExportScene ==
  /\ pc = "export"
  /\ f < ExportLimit
  /\ IF SkipExport(hist_list[f])
       THEN UNCHANGED files
       ELSE LET density == Density(hist_list[f])
                table == DensityTable(f, density)
                name == filenames[f]
            IN files' =
                 Write(Write(Write(files,
                   <<"appearance_density", name>>, table),
                   <<"appearance_density_cleaned", name>>, Cleaned(table)),
                   <<"seeds", name>>, seeds_list[f])
  /\ f' = f + 1
  /\ UNCHANGED <<config, pc, statsVars, i, batchVars>>

\* lines 210-213 after the last scene
ExportDone ==
  /\ pc = "export"
  /\ f >= ExportLimit
  /\ pc' = IF NBATCH > 0 THEN "batch_init" ELSE "done"
  /\ UNCHANGED <<config, statsVars, i, f, files, batchVars>>

NextStats ==
  \/ DecimatedHist
  \/ Setup
  \/ NextInput
  \/ NextInputFails
  \/ DrawLoopExit
  \/ InputHist
  \/ ProbaScene
  \/ ProbaDone
  \/ ExportScene
  \/ ExportDone

InitCommon ==
  /\ pc = IF STATS THEN "stats" ELSE "batch_init"
  /\ label_hist = <<>>
  /\ pc_shapes = <<>>
  /\ hist_list = <<>>
  /\ seeds_list = <<>>
  /\ scene_counters = <<>>
  /\ i = 0
  /\ f = 0
  /\ figures = <<>>
  /\ files = <<>>
  /\ draws = <<>>
  /\ calls = 0
  /\ xsize = 0
  /\ ysize = 0
  /\ visu_cloud = <<>>
  /\ visu_labels = <<>>
  /\ batches = <<>>
  /\ probe = <<>>
  /\ batch_calls = 0

\* python visu.py --stats=true --n 0, on the two-scene stub
Init ==
  /\ FLAGS \in [stats : {TRUE}, draw : BOOLEAN, n : {0}, nps : 0..MaxNps,
                batch_size : {1}]
  /\ GROUP_BY_BATCHES = TRUE
  /\ PARAMS = [use_color |-> FALSE]
  /\ DATA \in {StubData(h) : h \in {<<2, 4>>, <<0, 0>>}}
  /\ InitCommon

Spec == Init /\ [][NextStats]_vars

\* the same run on a dataset of MAX_EXPORT+1 scenes
InitMany ==
  /\ FLAGS \in [stats : {TRUE}, draw : BOOLEAN, n : {0}, nps : 0..MaxNps,
                batch_size : {1}]
  /\ GROUP_BY_BATCHES = TRUE
  /\ PARAMS = [use_color |-> FALSE]
  /\ DATA \in {ManyData(s) : s \in [1..ScriptLen -> ManyInputs]}
  /\ InitCommon

SpecMany == InitMany /\ [][NextStats]_vars

(* ------------------- properties of the statistics pass ----------------- *)

\* the accumulators exist from the end of Setup on
Accumulating == pc \in {"draw", "draw_done", "proba", "export", "aborted"}
                  \/ (pc = "done" /\ STATS)

\* every quotient of a written plot or table
Quotients(name) ==
  LET c == files[name]
  IN CASE name[1] \in {"dec.png", "input.png"} -> {c[k] : k \in DOMAIN c}
       [] name[1] = "proba_scene" ->
            UNION {{c[n][p] : p \in DOMAIN c[n]} : n \in DOMAIN c}
       [] name[1] \in {"appearance_density", "appearance_density_cleaned"} ->
            {c[p].density : p \in DOMAIN c}
       [] OTHER -> {}

\* C2: every normalisation divides only by a nonzero divisor, so no written
\* histogram or table holds the outcome of a division by zero (nan, inf)
C2_NoDivisionByZero ==
  \A name \in DOMAIN files : \A q \in Quotients(name) : ~NotFinite(q)

\* the draws so far, class by class
DeltaSum(c) == SeqSum([n \in DOMAIN draws |-> draws[n].input_label_hist[c]])

\* C3: after every prefix of draws the class histogram is the elementwise
\* sum of the classCountDelta of those draws, each counted once
C3_ClassHistogramIsSumOfDeltas ==
  Accumulating =>
    /\ Len(draws) = i
    /\ DOMAIN label_hist = 1..NUM_CLASSES
    /\ \A c \in 1..NUM_CLASSES : label_hist[c] = DeltaSum(c)

C3_Witness ==
  /\ pc = "draw"
  /\ Len(draws) = 3
  /\ \E m, n \in DOMAIN draws :
       m # n /\ draws[m].input_label_hist # draws[n].input_label_hist
  /\ label_hist = <<2, 1>>

\* the draws so far that returned scene sc, in draw order
DrawsOf(sc) == SelectSeq(draws, LAMBDA d : d.f = sc)

\* C4 (sums): after any prefix of draws and for every scene, selectionCount
\* is the sum of the masks of the draws that returned it, drawCount is their
\* number, seeds lists their seeds in draw order, and the drawCounts add up
\* to the number of draws
C4_PrefixSums ==
  Accumulating =>
    /\ \A sc \in 0..(F - 1) :
         LET mine == DrawsOf(sc)
         IN /\ \A p \in 1..pc_shapes[sc] :
                 hist_list[sc][p] =
                   SeqSum([n \in DOMAIN mine |-> mine[n].input_mask[p]])
            /\ scene_counters[sc] = Len(mine)
            /\ Len(seeds_list[sc]) = scene_counters[sc]
            /\ seeds_list[sc] = [n \in DOMAIN mine |-> mine[n].seed_idx]
    /\ SeqSum([k \in 1..F |-> scene_counters[k - 1]]) = Len(draws)

\* C4 (one draw): the draw adds its mask, one count and its seed to the
\* scene it returned and changes nothing of any other scene
C4_OneDraw ==
  (pc = "draw" /\ draws' # draws) =>
    LET d == draws'[Len(draws')]
    IN /\ Len(draws') = Len(draws) + 1
       /\ hist_list'[d.f] = VecAdd(hist_list[d.f], d.input_mask)
       /\ scene_counters'[d.f] = scene_counters[d.f] + 1
       /\ seeds_list'[d.f] = Append(seeds_list[d.f], d.seed_idx)
       /\ \A g \in 0..(F - 1) :
            g # d.f => /\ hist_list'[g] = hist_list[g]
                       /\ scene_counters'[g] = scene_counters[g]
                       /\ seeds_list'[g] = seeds_list[g]

\* C4: each draw updates the accumulator of the scene it returned and of no
\* other scene, so the accumulators are the per-scene sums of the draws
C4_DrawUpdatesOneScene == [](C4_PrefixSums) /\ [][C4_OneDraw]_vars

C4_Witness ==
  /\ pc = "draw"
  /\ Len(draws) = 4
  /\ scene_counters = (0 :> 3) @@ (1 :> 1)
  /\ hist_list[0] = <<2, 1, 1, 0>>
  /\ seeds_list[0] = <<2, 0, 1>>

\* the plots and tables computed from the accumulators
Derived ==
  {name \in DOMAIN files :
     name[1] \in {"input.png", "proba_scene", "appearance_density",
                  "appearance_density_cleaned", "seeds"}}

\* C5: the sampling primitive is called STAT_INPUT_NB*F times, never again
\* after a failure, and whatever is computed from the accumulators is written
\* only after all these draws succeeded; a failed draw ends the run with none
\* of it written
C5_AllDrawsBeforeAnyExport ==
  /\ calls <= TotalInputs
  /\ pc \in {"draw_done", "proba", "export"} \/ (pc = "done" /\ STATS) =>
       calls = TotalInputs /\ Len(draws) = TotalInputs
  /\ Derived # {} => Len(draws) = TotalInputs /\ calls = TotalInputs
  /\ pc = "aborted" =>
       Derived = {} /\ Len(draws) < TotalInputs /\ calls = Len(draws) + 1

C5_Witness ==
  /\ pc = "aborted"
  /\ Len(draws) = 3
  /\ SeqSum(hist_list[0]) > 0
  /\ Derived = {}

\* the points of scene sc selected at least once, lowest index first
SelectedPoints(sc) == {p \in 1..pc_shapes[sc] : hist_list[sc][p] > 0}

NthSelected(sc, m) ==
  CHOOSE p \in SelectedPoints(sc) :
    Cardinality({q \in SelectedPoints(sc) : q <= p}) = m

\* the export loop has gone past scene sc
Exported(sc) ==
  sc < ExportLimit /\ ((pc = "export" /\ f > sc) \/ (pc = "done" /\ STATS))

\* C6: an exported scene with a nonzero total selection gets density[p] =
\* selectionCount[p] / sum(selectionCount), which adds up to 1, in a table
\* of one row per point, and a cleaned table of exactly the rows with
\* selectionCount[p] > 0 in point order
C6_DensityExport ==
  \A sc \in 0..(F - 1) :
    (Exported(sc) /\ SeqSum(hist_list[sc]) > 0) =>
      /\ Written(<<"appearance_density", filenames[sc]>>)
      /\ Written(<<"appearance_density_cleaned", filenames[sc]>>)
      /\ LET table == files[<<"appearance_density", filenames[sc]>>]
             cleaned == files[<<"appearance_density_cleaned", filenames[sc]>>]
             total == SeqSum(hist_list[sc])
         IN /\ Len(table) = pc_shapes[sc]
            /\ \A p \in 1..pc_shapes[sc] :
                 /\ table[p].xyz = get_scene(sc)[p]
                 /\ table[p].density = <<hist_list[sc][p], total>>
            /\ SeqSum([p \in DOMAIN table |-> table[p].density[1]]) = total
            /\ Len(cleaned) = Cardinality(SelectedPoints(sc))
            /\ \A m \in 1..Len(cleaned) :
                 cleaned[m] = table[NthSelected(sc, m)]

\* the example of the specification: counts 2 1 1 0, densities 2/4 1/4 1/4 0
C6_Witness ==
  /\ pc = "done"
  /\ hist_list[0] = <<2, 1, 1, 0>>
  /\ Written(<<"appearance_density", 100>>)
  /\ [p \in 1..4 |-> files[<<"appearance_density", 100>>][p].density]
       = << <<2, 4>>, <<1, 4>>, <<1, 4>>, <<0, 4>> >>
  /\ Len(files[<<"appearance_density_cleaned", 100>>]) = 3
  /\ hist_list[1] = <<1, 1>>

\* the files of the export step for scene sc
ExportFiles(sc) ==
  { <<"appearance_density", filenames[sc]>>,
    <<"appearance_density_cleaned", filenames[sc]>>,
    <<"seeds", filenames[sc]>> }

\* C7: a scene never drawn gets no likelihood histogram and no export file, a
\* scene with a zero total selection gets no export file, scenes from index
\* MAX_EXPORT on get neither, the other scenes among the first
\* min(F, MAX_EXPORT) get theirs, and no division by zero happens on the way
C7_DegenerateScenesSkipped ==
  Accumulating =>
    \A sc \in 0..(F - 1) :
      /\ Written(<<"proba_scene", sc>>) =>
           sc < MAX_EXPORT /\ scene_counters[sc] > 0
      /\ ExportFiles(sc) \cap DOMAIN files # {} =>
           sc < MAX_EXPORT /\ SeqSum(hist_list[sc]) > 0
      /\ (pc = "done" /\ sc < Min2(F, MAX_EXPORT)) =>
           /\ scene_counters[sc] > 0 => Written(<<"proba_scene", sc>>)
           /\ SeqSum(hist_list[sc]) > 0 => ExportFiles(sc) \subseteq DOMAIN files
      /\ \A name \in ExportFiles(sc) \cup {<<"proba_scene", sc>>} :
           Written(name) => \A q \in Quotients(name) : ~NotFinite(q)

C7_Witness ==
  /\ pc = "done"
  /\ F > MAX_EXPORT
  /\ scene_counters[1] = 0
  /\ ~Written(<<"proba_scene", 1>>)
  /\ scene_counters[0] > 0 /\ SeqSum(hist_list[0]) = 0
  /\ Written(<<"proba_scene", 0>>)
  /\ ExportFiles(0) \cap DOMAIN files = {}
  /\ ExportFiles(MAX_EXPORT - 1) \subseteq DOMAIN files
  /\ SeqSum(hist_list[MAX_EXPORT]) > 0
  /\ ~Written(<<"proba_scene", MAX_EXPORT>>)
  /\ ExportFiles(MAX_EXPORT) \cap DOMAIN files = {}

(* ------------------------ batch visualisation -------------------------- *)

\* the scenes next_batch may return: rows x y z, and one label per point
PlainBank ==
  { [points |-> << <<0, 0, 0>> >>, labels |-> <<0>>],
    [points |-> << <<5, 5, 0>>, <<15, 15, 2>> >>, labels |-> <<1, 0>>],
    [points |-> << <<0, 0, 1>>, <<40, 30, 1>> >>, labels |-> <<0, 1>>] }

\* the same scenes with the colour channels r g b after x y z
ColourBank ==
  { [points |-> [k \in DOMAIN s.points |-> s.points[k] \o <<1, 0, 1>>],
     labels |-> s.labels] : s \in PlainBank }

BatchData ==
  [num_classes |-> 2, filenames |-> <<>>, shapes |-> <<>>, hist |-> <<0, 0>>,
   script |-> <<>>, bank |-> [plain |-> PlainBank, colour |-> ColourBank]]

\* what DATA.next_batch(BATCH_SIZE, ...) may return: data and label_data
Batches ==
  LET bank == IF PARAMS.use_color THEN DATA.bank.colour ELSE DATA.bank.plain
  IN { [data |-> [j \in 1..BATCH_SIZE |-> b[j].points],
        label_data |-> [j \in 1..BATCH_SIZE |-> b[j].labels]] :
       b \in [1..BATCH_SIZE -> bank] }

SetMin(S) == CHOOSE m \in S : \A n \in S : m <= n
SetMax(S) == CHOOSE m \in S : \A n \in S : m >= n

\* np.min(rows, axis=0), np.max(rows, axis=0)
ColMin(rows) ==
  [c \in DOMAIN rows[1] |-> SetMin({rows[k][c] : k \in DOMAIN rows})]
ColMax(rows) ==
  [c \in DOMAIN rows[1] |-> SetMax({rows[k][c] : k \in DOMAIN rows})]

\* rows[:, 0:3]
XYZ(rows) == [k \in DOMAIN rows |-> SubSeq(rows[k], 1, 3)]

\* lines 222-225: the cell size measured on a scene
CellSize(rows) ==
  [x |-> ColMax(rows)[1] - ColMin(rows)[1] + MARGIN,
   y |-> ColMax(rows)[2] - ColMin(rows)[2] + MARGIN]

\* lines 226-231: what the composite holds before the first batch: a
\* one-dimensional array of 6 or 3 zeros, and a vector of one label
InitialCloud ==
  [ndim |-> 1, data |-> IF PARAMS.use_color THEN <<0, 0, 0, 0, 0, 0>>
                                            ELSE <<0, 0, 0>>]
InitialLabels == <<0>>

\* the rows of an array: np.vstack takes a one-dimensional array as one row
Rows(a) == IF a.ndim = 1 THEN <<a.data>> ELSE a.data

\* line 248: np.vstack((a, rows))
VStack(a, rows) == [ndim |-> 2, data |-> Rows(a) \o rows]

\* lines 240-246: the scene at place j of batch ii, moved to its cell
Positioned(scene, ii, j) ==
  LET origin == <<j * xsize, ii * ysize, 0>> \o <<0, 0, 0>>
      unit == <<1, 1, 1, 0, 0, 0>>
      mn == ColMin(scene)
  IN [k \in DOMAIN scene |->
        [c \in DOMAIN scene[k] |-> scene[k][c] + origin[c] - mn[c] * unit[c]]]

RECURSIVE Flatten(_)
Flatten(ss) == IF ss = <<>> THEN <<>> ELSE ss[1] \o Flatten(Tail(ss))

Reverse(s) == [k \in 1..Len(s) |-> s[Len(s) + 1 - k]]

\* line 247: np.vstack(positioned_data); place j of the source is entry j+1
BatchPoints(data, ii) ==
  Flatten([j \in DOMAIN data |-> Positioned(data[j], ii, j - 1)])

\* line 249: np.hstack(label_data)
BatchLabelsReversed(label_data) == Flatten(Reverse(label_data))
BatchLabels(label_data) == Flatten(label_data)

\* lines 256-258, 263-265: the true-colour export of a cloud
TrueColor(rows) ==
  [k \in DOMAIN rows |->
     [xyz |-> SubSeq(rows[k], 1, 3),
      rgb |-> IF PARAMS.use_color
                THEN <<255 * rows[k][4], 255 * rows[k][5], 255 * rows[k][6]>>
                ELSE <<0, 0, 0>>]]

\* lines 259, 266: the label-colour export of a cloud
LabelColor(rows, labels) == [xyz |-> XYZ(rows), labels |-> labels]

\* lines 210-231: the probe batch and the empty composite, in grid mode;
\* probe is what line 220 keeps of the batch, the x y z of its first scene
BatchInit ==
  /\ pc = "batch_init"
  /\ IF GROUP_BY_BATCHES /\ NBATCH > 0
       THEN \E b \in Batches :
              LET data == XYZ(b.data[1])
              IN /\ probe' = data
                 /\ batch_calls' = batch_calls + 1
                 /\ xsize' = CellSize(data).x
                 /\ ysize' = CellSize(data).y
                 /\ visu_cloud' = InitialCloud
                 /\ visu_labels' = InitialLabels
       ELSE UNCHANGED <<probe, batch_calls, xsize, ysize, visu_cloud,
                        visu_labels>>
  /\ i' = 0
  /\ pc' = "batch"
  /\ UNCHANGED <<config, statsVars, f, files, batches>>

\* lines 253-259: the scenes of a batch written one by one; the file name
\* holds the place j in the batch
SceneFiles(fs, b) ==
  LET RECURSIVE Put(_, _)
      Put(acc, j) ==
        IF j > Len(b.data) THEN acc
        ELSE Put(Write(Write(acc, <<"trueColors", j - 1>>,
                             TrueColor(b.data[j])),
                       <<"labelColors", j - 1>>,
                       LabelColor(b.data[j], b.label_data[j])),
                 j + 1)
  IN Put(fs, 1)

\* lines 233-259: one iteration of the loop over the batches
NextBatch ==
  /\ pc = "batch"
  /\ i < NBATCH
  /\ \E b \in Batches :
       /\ batches' = Append(batches, b)
       /\ IF GROUP_BY_BATCHES
            THEN /\ visu_cloud' = VStack(visu_cloud, BatchPoints(b.data, i))
                 /\ visu_labels' = visu_labels \o BatchLabels(b.label_data)
                 /\ UNCHANGED files
            ELSE /\ files' = SceneFiles(files, b)
                 /\ UNCHANGED <<visu_cloud, visu_labels>>
  /\ batch_calls' = batch_calls + 1
  /\ i' = i + 1
  /\ UNCHANGED <<config, pc, statsVars, f, xsize, ysize, probe>>

\* lines 261-267: the composite written once the loop is over
BatchExport ==
  /\ pc = "batch"
  /\ i >= NBATCH
  /\ IF GROUP_BY_BATCHES /\ NBATCH > 0
       THEN files' = Write(Write(files, <<"trueColors", -1>>,
                                 TrueColor(visu_cloud.data)),
                           <<"labelColors", -1>>,
                           LabelColor(visu_cloud.data, visu_labels))
       ELSE UNCHANGED files
  /\ pc' = "done"
  /\ UNCHANGED <<config, statsVars, i, f, batchVars>>

NextBatches ==
  \/ BatchInit
  \/ NextBatch
  \/ BatchExport

\* python visu.py --n B --batch_size S, in grid mode or scene by scene
InitBatch ==
  /\ FLAGS \in [stats : {FALSE}, draw : {TRUE}, n : 0..MaxBatches, nps : {0},
                batch_size : 1..MaxBatchSize]
  /\ GROUP_BY_BATCHES \in BOOLEAN
  /\ PARAMS \in [use_color : BOOLEAN]
  /\ DATA = BatchData
  /\ InitCommon

SpecBatch == InitBatch /\ [][NextBatches]_vars

(* ---------------- properties of the batch visualisation ---------------- *)

\* the grid run has a composite
Compositing == GROUP_BY_BATCHES /\ NBATCH > 0 /\ pc \in {"batch", "done"}

\* the cells filled so far: batch ii (from 0) and place j (from 0)
Cells == {c \in (0..(Len(batches) - 1)) \X (0..(BATCH_SIZE - 1)) : TRUE}

\* the scene of a cell as it is placed on the grid
CellScene(c) == Positioned(batches[c[1] + 1].data[c[2] + 1], c[1], c[2])

\* two closed intervals meet
Meet(lo1, hi1, lo2, hi2) == lo1 <= hi2 /\ lo2 <= hi1

\* the x/y bounding boxes of two clouds overlap
Overlap(a, b) ==
  /\ Meet(ColMin(a)[1], ColMax(a)[1], ColMin(b)[1], ColMax(b)[1])
  /\ Meet(ColMin(a)[2], ColMax(a)[2], ColMin(b)[2], ColMax(b)[2])

\* C1: in grid mode the x/y bounding boxes of the repositioned scenes of two
\* distinct cells never overlap, whatever scenes next_batch returns
C1_CellsDoNotOverlap ==
  Compositing =>
    \A c1, c2 \in Cells : c1 # c2 => ~Overlap(CellScene(c1), CellScene(c2))

\* the number of points of the scenes of a batch
PointsOf(b) == SeqSum([j \in DOMAIN b.data |-> Len(b.data[j])])

\* the row of the composite before the first point of cell c
RowBefore(c) ==
  Len(Rows(InitialCloud))
    + SeqSum([n \in 1..c[1] |-> PointsOf(batches[n])])
    + SeqSum([j \in 1..c[2] |-> Len(batches[c[1] + 1].data[j])])

\* C8: in grid mode the composite cloud has as many rows as the composite
\* label vector has entries, at initialisation and after every batch, and
\* row k and label k belong to the same point of the same scene
C8_PointsAndLabelsParallel ==
  Compositing =>
    /\ Len(Rows(visu_cloud)) = Len(visu_labels)
    /\ Len(batches) > 0 => visu_cloud.ndim = 2
    /\ \A c \in Cells :
         LET scene == CellScene(c)
             labels == batches[c[1] + 1].label_data[c[2] + 1]
         IN \A k \in DOMAIN scene :
              /\ Rows(visu_cloud)[RowBefore(c) + k] = scene[k]
              /\ visu_labels[RowBefore(c) + k] = labels[k]

C8_Witness ==
  /\ Compositing
  /\ pc = "batch"
  /\ Len(batches) = 2
  /\ BATCH_SIZE = 2
  /\ Len(batches[1].data[1]) # Len(batches[1].data[2])
  /\ batches[2].label_data[1] # batches[2].label_data[2]
  /\ Len(Rows(visu_cloud)) = 7
  /\ Len(visu_labels) = 7

\* the exports of single scenes, and the exports of the composite
SceneExports ==
  {name \in DOMAIN files :
     name[1] \in {"trueColors", "labelColors"} /\ name[2] >= 0}
CompositeExports ==
  {name \in DOMAIN files :
     name[1] \in {"trueColors", "labelColors"} /\ name[2] < 0}

\* C9: without the grid a run of NBATCH batches leaves a true-colour and a
\* label-colour export for each of its BATCH_SIZE*NBATCH scenes, none
\* replaced by another, draws no probe batch and writes no composite
C9_OneExportPerScene ==
  (pc = "done" /\ ~STATS /\ ~GROUP_BY_BATCHES) =>
    /\ Cardinality(SceneExports) = 2 * BATCH_SIZE * NBATCH
    /\ batch_calls = NBATCH
    /\ probe = <<>>
    /\ CompositeExports = {}

\* C10: a grid run of NBATCH > 0 batches calls next_batch NBATCH+1 times and
\* exports exactly the repositioned points and the labels of the NBATCH
\* batches of the loop, nothing of the probe batch and nothing else
C10_CompositeIsTheBatches ==
  (pc = "done" /\ Compositing) =>
    /\ batch_calls = NBATCH + 1
    /\ Len(batches) = NBATCH
    /\ Written(<<"labelColors", -1>>)
    /\ LET out == files[<<"labelColors", -1>>]
           total == SeqSum([n \in DOMAIN batches |-> PointsOf(batches[n])])
       IN /\ Len(out.xyz) = total
          /\ Len(out.labels) = total

====
